---- MODULE Spec2Model ----
(***************************************************************************)
(* The recursive powerset algorithm subsets/subsetsCore of STLSubSets.cpp, *)
(* modelled as a machine with an explicit call stack.  One frame of        *)
(* `stack` is one activation of subsetsCore; iterators are positions.      *)
(***************************************************************************)
EXTENDS Integers, Sequences, FiniteSets, TLC

\* ---- bounds ----
MaxLen == 3
\* the number of elements the result container may hold before the call
MaxOld == 2
\* the number of elements the result container can hold (its max_size / the memory left)
Capacity == 3
\* the number of subsetsCore activations the thread's stack can hold
StackLimit == MaxLen

\* element values the inputs are drawn from
Values == {0, 1, 2, 5}
ValuesTwice == {0, 5}

VARIABLES
    pc,                 \* where _tmain is: "main" (before line 80), "subsets" (inside the call), "done" (line 82)
    inputToGetSubsets,  \* the input vector of _tmain
    result,             \* the result container of _tmain
    destination,        \* the insert position held by the insert_iterator (0: no iterator alive)
    emptySequence,      \* the local of subsets
    stack,              \* the activations of subsetsCore, outermost first
    resultAt,           \* history: for each element of result, the input positions its elements were copied from
    first,              \* history: input and result of the first completed call
    before              \* history: the container and the insert position the call was started with

vars == <<pc, inputToGetSubsets, result, destination, emptySequence, stack, resultAt, first, before>>

\* ---- helpers ----
SeqsUpTo(V, n) == UNION {[1..k -> V] : k \in 0..n}

\* container.insert(position, value) of a vector: value ends up at index pos
InsertAt(container, pos, value) ==
    SubSeq(container, 1, pos - 1) \o <<value>> \o SubSeq(container, pos, Len(container))

\* the container a frame's [inputSequenceBegin, inputSequenceEnd) points into:
\* owner 0 is emptySequence of subsets, owner i > 0 is the local `input` of frame i
InputSequence(owner) == IF owner = 0 THEN emptySequence ELSE stack[owner].input
InputSequenceAt(owner) == IF owner = 0 THEN <<>> ELSE stack[owner].inputAt

\* std::distance(remainderSequenceBegin, remainderSequenceEnd)
Distance(remainderSequenceBegin) == Len(inputToGetSubsets) + 1 - remainderSequenceBegin

Top == stack[Len(stack)]

Frame(rb, owner) ==
    [remainderSequenceBegin |-> rb, owner |-> owner, at |-> "test",
     input |-> <<>>, inputAt |-> <<>>,
     entry |-> destination,    \* history: the insert position when the activation began
     received |-> <<>>]        \* history: [inputSequenceBegin, inputSequenceEnd) as read at line 44

NoCall == [made |-> FALSE, input |-> <<>>, result |-> <<>>]

\* ---- initial states: _tmain after lines 72-78, with an arbitrary input ----
InitWith(V) ==
    /\ pc = "main"
    /\ inputToGetSubsets \in SeqsUpTo(V, MaxLen)
    /\ result = <<>>
    /\ destination = 0
    /\ emptySequence = <<>>
    /\ stack = <<>>
    /\ resultAt = <<>>
    /\ first = NoCall
    /\ before = [result |-> <<>>, position |-> 0]

Init == InitWith(Values)

\* ---- actions ----
\* variant of Call: subsets returns at once when the input range is empty
CallGuardsEmpty ==
    /\ pc = "main"
    /\ pc' = "subsets"
    /\ destination' = 1
    /\ emptySequence' = <<>>
    /\ stack' = IF inputToGetSubsets = <<>> THEN <<>> ELSE <<[Frame(1, 0) EXCEPT !.entry = 1]>>
    /\ before' = [result |-> result, position |-> 1]
    /\ UNCHANGED <<inputToGetSubsets, result, resultAt, first>>

\* _tmain line 80 and subsets lines 59-64: std::inserter(result, result.begin()),
\* the local emptySequence, and the first subsetsCore activation over the whole input
Call ==
    /\ pc = "main"
    /\ pc' = "subsets"
    /\ destination' = 1
    /\ emptySequence' = <<>>
    /\ stack' = <<[Frame(1, 0) EXCEPT !.entry = 1]>>
    /\ before' = [result |-> result, position |-> 1]
    /\ UNCHANGED <<inputToGetSubsets, result, resultAt, first>>

\* variant of Emit: the insert position is not advanced past the inserted element
EmitNoAdvance ==
    /\ pc = "subsets" /\ stack # <<>>
    /\ Top.at = "test"
    /\ Distance(Top.remainderSequenceBegin) = 0
    /\ result' = InsertAt(result, destination, InputSequence(Top.owner))
    /\ resultAt' = InsertAt(resultAt, destination, InputSequenceAt(Top.owner))
    /\ destination' = destination
    /\ stack' = SubSeq(stack, 1, Len(stack) - 1)
    /\ UNCHANGED <<pc, inputToGetSubsets, emptySequence, first, before>>

\* variant of Emit: the sequence is appended at the end of the container instead
\* of being inserted at the position of the iterator
EmitAppends ==
    /\ pc = "subsets" /\ stack # <<>>
    /\ Top.at = "test"
    /\ Distance(Top.remainderSequenceBegin) = 0
    /\ result' = Append(result, InputSequence(Top.owner))
    /\ resultAt' = Append(resultAt, InputSequenceAt(Top.owner))
    /\ destination' = destination + 1
    /\ stack' = SubSeq(stack, 1, Len(stack) - 1)
    /\ UNCHANGED <<pc, inputToGetSubsets, emptySequence, first, before>>

\* variant of Emit: a sequence equal to one already stored is not stored again
EmitDedup ==
    /\ pc = "subsets" /\ stack # <<>>
    /\ Top.at = "test"
    /\ Distance(Top.remainderSequenceBegin) = 0
    /\ LET seen == \E k \in 1..Len(result) : result[k] = InputSequence(Top.owner)
       IN /\ result' = IF seen THEN result
                       ELSE InsertAt(result, destination, InputSequence(Top.owner))
          /\ resultAt' = IF seen THEN resultAt
                         ELSE InsertAt(resultAt, destination, InputSequenceAt(Top.owner))
          /\ destination' = IF seen THEN destination ELSE destination + 1
    /\ stack' = SubSeq(stack, 1, Len(stack) - 1)
    /\ UNCHANGED <<pc, inputToGetSubsets, emptySequence, first, before>>

\* subsetsCore lines 37-41 and the return of line 52: the remainder is empty,
\* so a copy of the accumulated sequence is inserted and the iterator advanced
Emit ==
    /\ pc = "subsets" /\ stack # <<>>
    /\ Top.at = "test"
    /\ Distance(Top.remainderSequenceBegin) = 0
    /\ result' = InsertAt(result, destination, InputSequence(Top.owner))
    /\ resultAt' = InsertAt(resultAt, destination, InputSequenceAt(Top.owner))
    /\ destination' = destination + 1
    /\ stack' = SubSeq(stack, 1, Len(stack) - 1)
    /\ UNCHANGED <<pc, inputToGetSubsets, emptySequence, first, before>>

\* variant of Include: input.begin() is taken before the insert of line 45, so the
\* first recursive call reads through an invalidated iterator and may see either content
IncludeDangling ==
    /\ pc = "subsets" /\ stack # <<>>
    /\ Top.at = "test"
    /\ Distance(Top.remainderSequenceBegin) # 0
    /\ LET me == Len(stack)
           rb == Top.remainderSequenceBegin
           input == Append(InputSequence(Top.owner), inputToGetSubsets[rb])
           inputAt == Append(InputSequenceAt(Top.owner), rb - 1)
       IN \E seen \in {me, Top.owner} :
             stack' = Append([stack EXCEPT ![me].input = input, ![me].inputAt = inputAt,
                 ![me].received = InputSequence(Top.owner),
                                           ![me].at = "exclude"],
                             Frame(rb + 1, seen))
    /\ UNCHANGED <<pc, inputToGetSubsets, result, destination, emptySequence, resultAt, first, before>>

\* variant of Include: the element is inserted at input.begin() instead of input.end()
IncludePrepends ==
    /\ pc = "subsets" /\ stack # <<>>
    /\ Top.at = "test"
    /\ Distance(Top.remainderSequenceBegin) # 0
    /\ LET me == Len(stack)
           rb == Top.remainderSequenceBegin
           input == <<inputToGetSubsets[rb]>> \o InputSequence(Top.owner)
           inputAt == <<rb - 1>> \o InputSequenceAt(Top.owner)
       IN stack' = Append([stack EXCEPT ![me].input = input, ![me].inputAt = inputAt,
                 ![me].received = InputSequence(Top.owner),
                                        ![me].at = "exclude"],
                          Frame(rb + 1, me))
    /\ UNCHANGED <<pc, inputToGetSubsets, result, destination, emptySequence, resultAt, first, before>>

\* variant of Include: the element is moved out of the input, leaving a value-initialised one
IncludeMoves ==
    /\ pc = "subsets" /\ stack # <<>>
    /\ Top.at = "test"
    /\ Distance(Top.remainderSequenceBegin) # 0
    /\ LET me == Len(stack)
           rb == Top.remainderSequenceBegin
           input == Append(InputSequence(Top.owner), inputToGetSubsets[rb])
           inputAt == Append(InputSequenceAt(Top.owner), rb - 1)
       IN /\ stack' = Append([stack EXCEPT ![me].input = input, ![me].inputAt = inputAt,
                 ![me].received = InputSequence(Top.owner),
                                           ![me].at = "exclude"],
                             Frame(rb + 1, me))
          /\ inputToGetSubsets' = [inputToGetSubsets EXCEPT ![rb] = 0]
    /\ UNCHANGED <<pc, result, destination, emptySequence, resultAt, first, before>>

\* subsetsCore lines 44-48: the local `input` is a copy of the accumulated
\* sequence with the first remainder element appended; recurse on the rest
Include ==
    /\ pc = "subsets" /\ stack # <<>>
    /\ Top.at = "test"
    /\ Distance(Top.remainderSequenceBegin) # 0
    /\ LET me == Len(stack)
           rb == Top.remainderSequenceBegin
           input == Append(InputSequence(Top.owner), inputToGetSubsets[rb])
           inputAt == Append(InputSequenceAt(Top.owner), rb - 1)
       IN stack' = Append([stack EXCEPT ![me].input = input, ![me].inputAt = inputAt,
                 ![me].received = InputSequence(Top.owner),
                                        ![me].at = "exclude"],
                          Frame(rb + 1, me))
    /\ UNCHANGED <<pc, inputToGetSubsets, result, destination, emptySequence, resultAt, first, before>>

\* variant of Exclude: the second recursive call is missing
ExcludeSkipped ==
    /\ pc = "subsets" /\ stack # <<>>
    /\ Top.at = "exclude"
    /\ stack' = [stack EXCEPT ![Len(stack)].at = "return"]
    /\ UNCHANGED <<pc, inputToGetSubsets, result, destination, emptySequence, resultAt, first, before>>

\* variant of Exclude: the second recursive call is handed input.begin(), input.end() too
ExcludeLeaks ==
    /\ pc = "subsets" /\ stack # <<>>
    /\ Top.at = "exclude"
    /\ LET me == Len(stack)
       IN stack' = Append([stack EXCEPT ![me].at = "return"],
                          Frame(Top.remainderSequenceBegin + 1, me))
    /\ UNCHANGED <<pc, inputToGetSubsets, result, destination, emptySequence, resultAt, first, before>>

\* variant of Exclude: the second recursive call gets the whole remainder, not the rest
ExcludeSameRemainder ==
    /\ pc = "subsets" /\ stack # <<>>
    /\ Top.at = "exclude"
    /\ LET me == Len(stack)
       IN stack' = Append([stack EXCEPT ![me].at = "return"],
                          Frame(Top.remainderSequenceBegin, Top.owner))
    /\ UNCHANGED <<pc, inputToGetSubsets, result, destination, emptySequence, resultAt, first, before>>

\* subsetsCore lines 49-50: recurse on the rest with the sequence this activation received
Exclude ==
    /\ pc = "subsets" /\ stack # <<>>
    /\ Top.at = "exclude"
    /\ LET me == Len(stack)
       IN stack' = Append([stack EXCEPT ![me].at = "return"],
                          Frame(Top.remainderSequenceBegin + 1, Top.owner))
    /\ UNCHANGED <<pc, inputToGetSubsets, result, destination, emptySequence, resultAt, first, before>>

\* subsetsCore lines 51-52: the activation ends, its local `input` is destroyed
Return ==
    /\ pc = "subsets" /\ stack # <<>>
    /\ Top.at = "return"
    /\ stack' = SubSeq(stack, 1, Len(stack) - 1)
    /\ UNCHANGED <<pc, inputToGetSubsets, result, destination, emptySequence, resultAt, first, before>>

\* subsets line 65: emptySequence and the by-value insert_iterator are destroyed
SubsetsReturn ==
    /\ pc = "subsets" /\ stack = <<>>
    /\ pc' = "done"
    /\ destination' = 0
    /\ emptySequence' = <<>>
    /\ UNCHANGED <<inputToGetSubsets, result, stack, resultAt, first, before>>

\* a further run of _tmain lines 72-78: a fresh result container and another input
Main ==
    /\ pc = "done"
    /\ pc' = "main"
    /\ inputToGetSubsets' \in SeqsUpTo(ValuesTwice, MaxLen)
    /\ result' = <<>>
    /\ resultAt' = <<>>
    /\ first' = IF first.made THEN first
                ELSE [made |-> TRUE, input |-> inputToGetSubsets, result |-> result]
    /\ UNCHANGED <<destination, emptySequence, stack, before>>

Next == Call \/ Emit \/ Include \/ Exclude \/ Return \/ SubsetsReturn

Spec == Init /\ [][Next]_vars

\* repeated calls
InitTwice == InitWith(ValuesTwice)
NextTwice == Next \/ Main
SpecTwice == InitTwice /\ [][NextTwice]_vars

\* the call runs on the calling thread without suspension: every enabled step is taken
LiveSpec == Spec /\ WF_vars(Next)

\* ---- the call under resource limits ----
\* subsetsCore line 39 when the container cannot grow: the insert throws
\* (std::length_error / std::bad_alloc); no handler exists in subsetsCore, subsets
\* or _tmain, so every activation is unwound and the exception leaves subsets
InsertThrows ==
    /\ pc = "subsets" /\ stack # <<>>
    /\ Top.at = "test"
    /\ Distance(Top.remainderSequenceBegin) = 0
    /\ Len(result) >= Capacity
    /\ pc' = "failed"
    /\ stack' = <<>>
    /\ destination' = 0
    /\ UNCHANGED <<inputToGetSubsets, result, emptySequence, resultAt, first, before>>

\* subsetsCore lines 47-50 when the stack cannot hold another activation: the
\* behaviour is undefined; the process is killed, with the container as it was
\* or overwritten
StackOverflow ==
    /\ pc = "subsets" /\ stack # <<>>
    /\ \/ Top.at = "test" /\ Distance(Top.remainderSequenceBegin) # 0
       \/ Top.at = "exclude"
    /\ Len(stack) >= StackLimit
    /\ pc' = "crashed"
    /\ \E kept \in 0..Len(result) :
          /\ result' = SubSeq(result, 1, kept)
          /\ resultAt' = SubSeq(resultAt, 1, kept)
    /\ stack' = <<>>
    /\ destination' = 0
    /\ UNCHANGED <<inputToGetSubsets, emptySequence, first, before>>

\* the steps of subsetsCore while the resources last
EmitFits == Len(result) < Capacity /\ Emit
IncludeFits == Len(stack) < StackLimit /\ Include
ExcludeFits == Len(stack) < StackLimit /\ Exclude

NextLimited ==
    \/ Call
    \/ EmitFits
    \/ IncludeFits
    \/ ExcludeFits
    \/ Return
    \/ SubsetsReturn
    \/ InsertThrows
    \/ StackOverflow

SpecLimited == Init /\ [][NextLimited]_vars

\* ---- the Lisp reference quoted in the source (lines 14-18) ----
\* (defun powerset (l) (if (null l) '(nil)
\*   (let ((ps (powerset (cdr l)))) (append ps (mapcar (lambda (x) (cons (car l) x)) ps)))))
Mapcar(f(_), list) == [k \in 1..Len(list) |-> f(list[k])]

RECURSIVE powerset(_)
powerset(l) ==
    IF l = <<>> THEN << <<>> >>
    ELSE LET ps == powerset(Tail(l))
             cons(x) == <<Head(l)>> \o x
         IN ps \o Mapcar(cons, ps)

\* ---- the call with an insert iterator into a container that holds elements ----
\* sequences a caller may have stored before
OldElements == {<<>>, <<0>>, <<7, 7>>}
\* the history of an element that was not copied from the input
NotFromInput == <<-1>>

InitInto ==
    /\ pc = "main"
    /\ inputToGetSubsets \in SeqsUpTo(ValuesTwice, MaxLen)
    /\ result \in SeqsUpTo(OldElements, MaxOld)
    /\ destination = 0
    /\ emptySequence = <<>>
    /\ stack = <<>>
    /\ resultAt = [k \in 1..Len(result) |-> NotFromInput]
    /\ first = NoCall
    /\ before = [result |-> <<>>, position |-> 0]

\* subsets lines 59-64 called with std::inserter(result, result.begin() + (position - 1))
CallInto ==
    /\ pc = "main"
    /\ \E position \in 1..(Len(result) + 1) :
          /\ destination' = position
          /\ stack' = <<[Frame(1, 0) EXCEPT !.entry = position]>>
          /\ before' = [result |-> result, position |-> position]
    /\ pc' = "subsets"
    /\ emptySequence' = <<>>
    /\ UNCHANGED <<inputToGetSubsets, result, resultAt, first>>

NextInto == CallInto \/ Emit \/ Include \/ Exclude \/ Return \/ SubsetsReturn

SpecInto == InitInto /\ [][NextInto]_vars

TypeOK ==
    /\ pc \in {"main", "subsets", "done", "failed", "crashed"}
    /\ destination \in 0..(Len(result) + 1)
    /\ Len(result) = Len(resultAt)

\* ---- vocabulary of the properties ----
N == Len(inputToGetSubsets)
Positions == 0..(N - 1)

RECURSIVE Pow2(_)
Pow2(n) == IF n = 0 THEN 1 ELSE 2 * Pow2(n - 1)

\* the elements of s at the 0-based positions in S, in the order of s
RECURSIVE SelectFrom(_, _, _)
SelectFrom(s, S, i) ==
    IF i > Len(s) THEN <<>>
    ELSE (IF (i - 1) \in S THEN <<s[i]>> ELSE <<>>) \o SelectFrom(s, S, i + 1)
Select(s, S) == SelectFrom(s, S, 1)

SetOf(s) == {s[i] : i \in 1..Len(s)}
Occurrences(v) == Cardinality({k \in 1..Len(result) : result[k] = v})
StrictlyIncreasing(s) == \A i \in 1..(Len(s) - 1) : s[i] < s[i + 1]

\* the reference enumeration: include the head, then exclude it
RECURSIVE E(_, _)
E(rem, acc) ==
    IF rem = <<>> THEN <<acc>>
    ELSE E(Tail(rem), Append(acc, Head(rem))) \o E(Tail(rem), acc)

\* C1: when the call has returned, the initially empty result container holds
\* exactly 2^N subsequences, and never more than that while the call runs.
C1_ExactlyTwoToTheN ==
    /\ Len(result) <= Pow2(N)
    /\ pc = "done" => Len(result) = Pow2(N)
C1_Witness == pc = "done" /\ N = 3 /\ Len(result) = 8

\* C2: the emitted results correspond one-to-one to the subsets of the
\* position set: every subset of positions is the origin of exactly one
\* result, and that result holds the input elements at those positions.
C2_OneToOneWithPositionSubsets ==
    pc = "done" =>
        /\ \A S \in SUBSET Positions :
              Cardinality({k \in 1..Len(result) : SetOf(resultAt[k]) = S}) = 1
        /\ \A k \in 1..Len(result) :
              /\ SetOf(resultAt[k]) \subseteq Positions
              /\ Len(resultAt[k]) = Cardinality(SetOf(resultAt[k]))
              /\ result[k] = Select(inputToGetSubsets, SetOf(resultAt[k]))
C2_Witness ==
    /\ pc = "done" /\ N = 3
    /\ \E j, k \in 1..Len(result) : j # k /\ result[j] = result[k] /\ resultAt[j] # resultAt[k]

\* C3: the output is in include-then-exclude order, first element decided
\* first: it equals E(input, <<>>), which for [0,1,2] and [0] is the literal
\* order the specification lists.
C3_CanonicalOrder ==
    pc = "done" =>
        /\ result = E(inputToGetSubsets, <<>>)
        /\ inputToGetSubsets = <<0, 1, 2>> =>
              result = << <<0, 1, 2>>, <<0, 1>>, <<0, 2>>, <<0>>, <<1, 2>>, <<1>>, <<2>>, <<>> >>
        /\ inputToGetSubsets = <<0>> => result = << <<0>>, <<>> >>
C3_Witness == pc = "done" /\ inputToGetSubsets = <<0, 1, 2>> /\ result[5] = <<1, 2>>

\* C4: at every step, every result emitted so far is the input read at
\* strictly increasing positions (order preserved, no position used twice).
C4_SubsequenceAtIncreasingPositions ==
    \A k \in 1..Len(result) :
        \E p \in SeqsUpTo(Positions, N) :
            /\ StrictlyIncreasing(p)
            /\ Len(p) = Len(result[k])
            /\ \A j \in 1..Len(p) : result[k][j] = inputToGetSubsets[p[j] + 1]
C4_Witness ==
    /\ N = 3 /\ inputToGetSubsets[1] # inputToGetSubsets[3]
    /\ \E k \in 1..Len(result) : result[k] = <<inputToGetSubsets[1], inputToGetSubsets[3]>>

\* C5: the empty subsequence and the full input each occur exactly once in
\* the result, also when the input repeats values.
C5_EmptyAndFullOnce ==
    pc = "done" => Occurrences(<<>>) = 1 /\ Occurrences(inputToGetSubsets) = 1
C5_Witness == pc = "done" /\ inputToGetSubsets = <<5, 5, 5>> /\ Occurrences(<<5, 5>>) = 3

\* C6: results are not deduplicated by value: each value sequence occurs as
\* often as there are position subsets selecting it; [5,5] gives [5,5],[5],[5],[].
C6_NotDeduplicated ==
    pc = "done" =>
        /\ \A S \in SUBSET Positions :
              LET v == Select(inputToGetSubsets, S)
              IN Occurrences(v) =
                    Cardinality({T \in SUBSET Positions : Select(inputToGetSubsets, T) = v})
        /\ \A k \in 1..Len(result) :
              \E S \in SUBSET Positions : result[k] = Select(inputToGetSubsets, S)
        /\ inputToGetSubsets = <<5, 5>> => result = << <<5, 5>>, <<5>>, <<5>>, <<>> >>
C6_Witness == pc = "done" /\ inputToGetSubsets = <<5, 5>> /\ Occurrences(<<5>>) = 2

\* C7: for the empty input there is one subsetsCore activation and no
\* recursive call, and the call returns with exactly one result, the empty
\* sequence.
C7_EmptyInput ==
    N = 0 =>
        /\ Len(stack) <= 1
        /\ \A i \in 1..Len(stack) : stack[i].at = "test"
        /\ pc = "done" => result = << <<>> >>
C7_Witness == N = 0 /\ pc = "done" /\ Len(result) = 1

\* C8: no step of the call changes the input sequence, and when the call has
\* returned nothing of it is left but the results in the container.
C8_OnlyTheSinkIsWritten ==
    [][/\ inputToGetSubsets' = inputToGetSubsets
       /\ pc' = "done" => stack' = <<>> /\ destination' = 0 /\ emptySequence' = <<>>]_vars
C8_Witness == pc = "done" /\ N = 2 /\ inputToGetSubsets[1] # inputToGetSubsets[2]

\* C9: a call on the same input as the first completed call, into a fresh
\* container, gives the same results at the same indices, whatever calls
\* were made in between.
C9_Deterministic ==
    (pc = "done" /\ first.made /\ first.input = inputToGetSubsets) => result = first.result
C9_Witness ==
    /\ pc = "done" /\ first.made /\ first.input = inputToGetSubsets
    /\ N = 2 /\ Len(result) = 4

\* C10: every nested activation has a remainder one element shorter than its
\* caller's, at most N+1 activations are nested, and a started call returns.
C10_Depth ==
    /\ Len(stack) <= N + 1
    /\ \A i \in 2..Len(stack) :
          Distance(stack[i].remainderSequenceBegin)
              = Distance(stack[i - 1].remainderSequenceBegin) - 1
C10_WellFounded == []C10_Depth /\ ((pc = "subsets") ~> (pc = "done"))
C10_Witness == N = 3 /\ Len(stack) = 4 /\ Top.at = "test"

\* C11: when 2^N results exceed the capacity of the result container, or the
\* recursion depth exceeds what the stack holds, the call is refused with a
\* resource-exhaustion failure instead of proceeding: nothing is written, the
\* call neither completes nor crashes, and the input is left as it was.
ExceedsLimits == Pow2(N) > Capacity \/ N + 1 > StackLimit
C11_GuardedAgainstExhaustion ==
    ExceedsLimits =>
        /\ result = <<>>
        /\ pc \in {"main", "subsets", "failed"}

IsPrefix(p, s) == Len(p) <= Len(s) /\ SubSeq(s, 1, Len(p)) = p

\* C12: an activation with accumulated sequence acc and a non-empty remainder
\* of length m starting with h emits one contiguous block of 2^m results, all
\* with prefix acc; when its include branch has returned exactly the first
\* 2^(m-1) of them are there, all with prefix acc+[h]; the 2^(m-1) results
\* that follow come from the exclude branch and none selects the position of h.
C12_BlockOf(i) ==
    LET f == stack[i]
        m == Distance(f.remainderSequenceBegin)
        acc == InputSequence(f.owner)
        h == inputToGetSubsets[f.remainderSequenceBegin]
        half == Pow2(m - 1)
        emitted == destination - f.entry
        block == SubSeq(result, f.entry, destination - 1)
        blockAt == SubSeq(resultAt, f.entry, destination - 1)
    IN /\ emitted <= 2 * half
       /\ \A k \in 1..emitted : IsPrefix(acc, block[k])
       /\ \A k \in 1..emitted :
             IF k <= half
             THEN IsPrefix(Append(acc, h), block[k])
             ELSE (f.remainderSequenceBegin - 1) \notin SetOf(blockAt[k])
       /\ (i = Len(stack) /\ f.at = "exclude") => emitted = half
       /\ (i = Len(stack) /\ f.at = "return") => emitted = 2 * half
       /\ f.at = "return" => emitted >= half
C12_BlocksInIncludeExcludeOrder ==
    pc = "subsets" =>
        \A i \in 1..Len(stack) :
            Distance(stack[i].remainderSequenceBegin) # 0 => C12_BlockOf(i)
C12_Witness ==
    /\ pc = "subsets" /\ N = 3 /\ Len(stack) = 2
    /\ Top.at = "return" /\ Top.owner = 1 /\ destination - Top.entry = 4
    /\ inputToGetSubsets[1] # inputToGetSubsets[2]

\* C13: the element appended for the include branch stays in the activation's
\* own copy: once an activation is past line 45 the sequence it was handed
\* still reads as it did on entry, the include branch is handed that sequence
\* plus h, and the exclude branch is handed exactly the sequence the
\* activation itself received.
C13_IncludeBranchOwnsItsCopy ==
    pc = "subsets" =>
        /\ \A i \in 1..Len(stack) :
              stack[i].at \in {"exclude", "return"} =>
                  InputSequence(stack[i].owner) = stack[i].received
        /\ \A j \in 2..Len(stack) :
              LET caller == stack[j - 1]
                  h == inputToGetSubsets[caller.remainderSequenceBegin]
              IN InputSequence(stack[j].owner) =
                    IF caller.at = "exclude" THEN Append(caller.received, h)
                    ELSE caller.received
C13_Witness ==
    /\ pc = "subsets" /\ N = 3 /\ Len(stack) = 3
    /\ stack[1].at = "exclude" /\ stack[2].at = "return" /\ stack[3].at = "test"
    /\ stack[2].received = <<inputToGetSubsets[1]>>
    /\ InputSequence(stack[3].owner) = <<inputToGetSubsets[1]>>

Bit(x, b) == (x \div Pow2(b)) % 2
\* the positions selected by the result at 0-based index k
SelectedAt(k) == {i \in Positions : Bit(Pow2(N) - 1 - k, N - 1 - i) = 1}

\* C14: the result at 0-based index k holds the input element at position i
\* exactly when bit N-1-i of 2^N-1-k is set; so the first result is the whole
\* input, the last is empty, and the results at k and 2^N-1-k were copied from
\* complementary position sets.
C14_ClosedFormOfTheOrder ==
    pc = "done" =>
        /\ Len(result) = Pow2(N)
        /\ \A k \in 0..(Len(result) - 1) :
              /\ result[k + 1] = Select(inputToGetSubsets, SelectedAt(k))
              /\ SetOf(resultAt[k + 1]) = SelectedAt(k)
              /\ SetOf(resultAt[Len(result) - k]) = Positions \ SetOf(resultAt[k + 1])
        /\ result[1] = inputToGetSubsets
        /\ result[Len(result)] = <<>>
C14_Witness ==
    /\ pc = "done" /\ N = 3 /\ result[3] = <<inputToGetSubsets[1], inputToGetSubsets[3]>>
    /\ result[6] = <<inputToGetSubsets[2]>> /\ inputToGetSubsets[2] # inputToGetSubsets[3]

Reverse(s) == [k \in 1..Len(s) |-> s[Len(s) + 1 - k]]

\* C15: subsets and the Lisp powerset compute the same collection: every
\* sequence occurs equally often in both, and the emission order of subsets
\* is the reverse of the list powerset returns.
C15_ReverseOfLispPowerset ==
    pc = "done" =>
        LET ps == powerset(inputToGetSubsets)
        IN /\ result = Reverse(ps)
           /\ \A v \in SetOf(ps) \cup SetOf(result) :
                 Occurrences(v) = Cardinality({k \in 1..Len(ps) : ps[k] = v})
C15_Witness ==
    /\ pc = "done" /\ N = 3 /\ inputToGetSubsets[1] # inputToGetSubsets[2]
    /\ powerset(inputToGetSubsets)[2] = <<inputToGetSubsets[3]>>
    /\ result[7] = <<inputToGetSubsets[3]>>

\* the results of the running or finished call, as they lie in the container
NewBlock == SubSeq(result, before.position,
                   before.position + (Len(result) - Len(before.result)) - 1)

\* C16: into a container that already holds elements, the new results lie as
\* one contiguous block at the insert position, in emission order (2^N of
\* them at return); the elements stored before keep their values and order,
\* those before the insert position in front of the block, the others behind
\* it; and no step changes a result already written or its place in the block.
C16_Layout ==
    pc \in {"subsets", "done"} =>
        /\ result = SubSeq(before.result, 1, before.position - 1)
                    \o NewBlock
                    \o SubSeq(before.result, before.position, Len(before.result))
        /\ pc = "subsets" => destination = before.position + Len(NewBlock)
        /\ IsPrefix(NewBlock, E(inputToGetSubsets, <<>>))
        /\ pc = "done" => NewBlock = E(inputToGetSubsets, <<>>)
C16_InsertedAsOneBlock ==
    /\ []C16_Layout
    /\ [][pc = "subsets" => IsPrefix(NewBlock, NewBlock')]_vars
C16_Witness ==
    /\ pc = "done" /\ N = 2 /\ before.position = 2 /\ Len(before.result) = 2
    /\ result[1] = <<0>> /\ result[6] = <<>> /\ inputToGetSubsets[2] = 0

====
